---- MODULE Spec2Model ----
(***************************************************************************)
(* Text2SQLAgent: the agent graph built by create_sql_agent, query_agent   *)
(* streaming it, the interactive loop that calls query_agent, and          *)
(* create_mock_tables seeding the database.                                *)
(***************************************************************************)
EXTENDS Integers, Sequences, FiniteSets, TLC

VARIABLES
    cliPc,        \* interactive_mode: "start", "prompt", "query", "done"
    question,     \* interactive_mode: the local `question` (stripped input line)
    printed,      \* interactive_mode: what the last handled line printed
    built,        \* number of create_sql_agent calls made so far
    nCalls,       \* number of query_agent calls made so far
    pc,           \* agent graph: the node to run next, END, "idle" or "raised"
    messages,     \* agent graph: MessagesState["messages"] of the current run
    result,       \* query_agent: the local list `messages` (one entry per streamed value)
    returned,     \* query_agent: the list the last completed call returned
    nextId,       \* next fresh message id of the current run
    trace,        \* nodes executed so far in the current run, in order
    checkerCalls, \* ids of the tool calls emitted by check_query in the current run
    error,        \* the exception that ended the run, or "none"
    dbPc,         \* create_mock_tables: position in the function
    db,           \* committed row count of each table
    pending,      \* rows added to the session and not yet committed, per table
    discarded,    \* rows the last rollback discarded, per table
    dbCalls,      \* number of create_mock_tables calls started so far
    commits       \* number of create_mock_tables calls that committed

cliVars   == <<cliPc, question, printed, built, nCalls>>
graphVars == <<pc, messages, result, returned, nextId, trace, checkerCalls, error>>
dbVars    == <<dbPc, db, pending, discarded, dbCalls, commits>>
vars      == <<cliVars, graphVars, dbVars>>

-----------------------------------------------------------------------------
(* Bounds of the model *)

\* most generate/check/run iterations of one run
MaxIter == 2
\* most tool calls in one model response
MaxToolCalls == 1
\* most questions asked in one interactive session
MaxQuestions == 2
\* most rows a table holds before create_mock_tables is first called
MaxRows == 1
\* most calls of create_mock_tables
MaxDbCalls == 3

-----------------------------------------------------------------------------
(* Python str.strip() and str.lower() on lines, a line being a sequence of  *)
(* one-character strings                                                    *)

Whitespace == {" ", "\t", "\n"}

Upper == <<"A","B","C","D","E","F","G","H","I","J","K","L","M",
           "N","O","P","Q","R","S","T","U","V","W","X","Y","Z">>
LowerAlpha == <<"a","b","c","d","e","f","g","h","i","j","k","l","m",
           "n","o","p","q","r","s","t","u","v","w","x","y","z">>

LowerChar(c) ==
    IF \E i \in 1..Len(Upper) : Upper[i] = c
    THEN LowerAlpha[CHOOSE i \in 1..Len(Upper) : Upper[i] = c]
    ELSE c

lower(s) == [i \in 1..Len(s) |-> LowerChar(s[i])]

RECURSIVE lstrip(_)
lstrip(s) == IF s # <<>> /\ Head(s) \in Whitespace THEN lstrip(Tail(s)) ELSE s

RECURSIVE rstrip(_)
rstrip(s) ==
    IF s # <<>> /\ s[Len(s)] \in Whitespace
    THEN rstrip(SubSeq(s, 1, Len(s) - 1))
    ELSE s

strip(s) == rstrip(lstrip(s))

\* the lines typed at the prompt
Lines ==
    { <<"q","u","i","t">>,
      <<" ","Q","U","I","T","\n">>,
      <<"E","x","i","t"," ">>,
      <<"h","e","l","p">>,
      <<"\t","H","e","L","p">>,
      <<>>,
      <<" "," ">>,
      <<"q","u","i","t","s">>,
      <<" ","H","o","w"," ","m","a","n","y","?"," ">> }

-----------------------------------------------------------------------------
(* Messages *)

END == "__end__"

Nodes == {"list_tables", "call_get_schema", "get_schema",
          "generate_query", "check_query", "run_query"}

Msg(type, id, content, tool_calls, tool_call_id, name) ==
    [type |-> type, id |-> id, content |-> content, tool_calls |-> tool_calls,
     tool_call_id |-> tool_call_id, name |-> name]

NoId == <<>>

HumanMessage(content) == Msg("human", NoId, content, <<>>, <<>>, "")
AIMessage(id, content, tool_calls) == Msg("ai", id, content, tool_calls, <<>>, "")
ToolMessage(content, tool_call_id, name) ==
    Msg("tool", NoId, content, <<>>, tool_call_id, name)

ToolCall(name, args, id) == [name |-> name, args |-> args, id |-> id]

Last(s) == s[Len(s)]

\* langgraph's add_messages reducer of MessagesState: a message without an id
\* gets a fresh one; a message whose id is in the history replaces that entry;
\* any other message is appended
RECURSIVE add_messages(_, _, _, _)
add_messages(left, right, run, fresh) ==
    IF right = <<>> THEN left
    ELSE LET m0 == Head(right)
             m  == IF m0.id = NoId THEN [m0 EXCEPT !.id = <<run, fresh>>] ELSE m0
             f  == IF m0.id = NoId THEN fresh + 1 ELSE fresh
             hit == {i \in 1..Len(left) : left[i].id = m.id}
         IN  IF hit # {}
             THEN add_messages([left EXCEPT ![CHOOSE i \in hit : TRUE] = m],
                               Tail(right), run, f)
             ELSE add_messages(Append(left, m), Tail(right), run, f)

RECURSIVE CountNoId(_)
CountNoId(ms) ==
    IF ms = <<>> THEN 0
    ELSE (IF Head(ms).id = NoId THEN 1 ELSE 0) + CountNoId(Tail(ms))

-----------------------------------------------------------------------------
(* The language model and the toolkit *)

\* what the model may put in the arguments of its calls: the tables it deems
\* relevant, the query it proposes, and the checker's revision of a query
SchemaArgs == {<<"employees">>, <<"employees", "sales">>}
Queries    == {<<"SELECT 1">>}
Rewrite(args) == args \o <<"/* revised */">>

\* the tool-call lists a model bound to one tool can emit: at least `lo` calls,
\* every call of one response carrying the same arguments, drawn from `args`
ToolCallSeqs(toolName, args, lo, id) ==
    { [k \in 1..n[1] |-> ToolCall(toolName, n[2], <<"call", id[1], id[2], k>>)]
      : n \in (lo..MaxToolCalls) \X args }

\* llm.bind_tools([tool], tool_choice).invoke(input): the responses the model can
\* give. tool_choice="any" forces at least one tool call; without it the model
\* may answer in plain text. The response carries the fresh id `id`.
bind_tools_invoke(args, toolName, tool_choice, id) ==
    { AIMessage(id, IF calls = <<>> THEN <<"answer">> ELSE <<>>, calls)
      : calls \in ToolCallSeqs(toolName, args, IF tool_choice = "any" THEN 1 ELSE 0, id) }

\* tool.invoke(tool_call): the ToolMessage a tool answers a call with
tool_invoke(toolNames, call) ==
    ToolMessage(IF call.name \in toolNames
                THEN <<"result of", call.name>> \o call.args
                ELSE <<"Error: not a valid tool">>,
                call.id, call.name)

\* langgraph.prebuilt.ToolNode([tool]): one ToolMessage per tool call of the
\* latest message
ToolNode(toolName, state) ==
    [k \in 1..Len(Last(state).tool_calls) |->
        tool_invoke({toolName}, Last(state).tool_calls[k])]

get_schema_node(state) == ToolNode("sql_db_schema", state)

run_query_node(state) == ToolNode("sql_db_query", state)

-----------------------------------------------------------------------------
(* Node functions of create_sql_agent: each gives the updates it can return *)

list_tables(state) ==
    LET tool_call == ToolCall("sql_db_list_tables", <<>>, <<"list_tables_call", 0, 0, 0>>)
        tool_call_message == AIMessage(NoId, <<>>, <<tool_call>>)
        tool_message == tool_invoke({"sql_db_list_tables"}, tool_call)
        response == AIMessage(NoId, <<"Available tables: ">> \o tool_message.content, <<>>)
    IN  { <<tool_call_message, tool_message, response>> }

\* a call_get_schema that does not force a tool call
call_get_schema_unforced == "auto"

\* tool_choice of call_get_schema
call_get_schema_choice == "any"

call_get_schema(state, id) ==
    { <<response>> :
        response \in bind_tools_invoke(SchemaArgs, "sql_db_schema", call_get_schema_choice, id) }

generate_query(state, id) ==
    { <<response>> :
        response \in bind_tools_invoke(Queries, "sql_db_query", "auto", id) }

\* a check_query that leaves the response its own id
check_query_own_id(state, response) == response.id

\* `response.id = state["messages"][-1].id`
check_query_id(state, response) == Last(state).id

check_query(state, id) ==
    LET tool_call == Last(state).tool_calls[1]
        user_message == HumanMessage(tool_call.args)
    IN  { << [response EXCEPT !.id = check_query_id(state, response)] >> :
            response \in bind_tools_invoke({user_message.content,
                                            Rewrite(user_message.content)},
                                           "sql_db_query", "any", id) }

\* a should_continue that never ends the run
should_continue_always(state) == "check_query"

\* a should_continue that sends a proposed query straight to run_query
should_continue_unchecked(state) ==
    IF Last(state).tool_calls = <<>> THEN END ELSE "run_query"

should_continue(state) ==
    LET last_message == Last(state)
    IN  IF last_message.tool_calls = <<>> THEN END ELSE "check_query"

\* fixed edges with run_query leading back to list_tables
add_edge_relist(node) ==
    CASE node = "START"           -> "list_tables"
      [] node = "list_tables"     -> "call_get_schema"
      [] node = "call_get_schema" -> "get_schema"
      [] node = "get_schema"      -> "generate_query"
      [] node = "check_query"     -> "run_query"
      [] node = "run_query"       -> "list_tables"

\* fixed edges with run_query leading back to check_query
add_edge_recheck(node) ==
    CASE node = "START"           -> "list_tables"
      [] node = "list_tables"     -> "call_get_schema"
      [] node = "call_get_schema" -> "get_schema"
      [] node = "get_schema"      -> "generate_query"
      [] node = "check_query"     -> "run_query"
      [] node = "run_query"       -> "check_query"

\* fixed edges with check_query skipping run_query
add_edge_norun(node) ==
    CASE node = "START"           -> "list_tables"
      [] node = "list_tables"     -> "call_get_schema"
      [] node = "call_get_schema" -> "get_schema"
      [] node = "get_schema"      -> "generate_query"
      [] node = "check_query"     -> "generate_query"
      [] node = "run_query"       -> "generate_query"

\* builder.add_edge(...): the fixed edges of the graph
add_edge(node) ==
    CASE node = "START"           -> "list_tables"
      [] node = "list_tables"     -> "call_get_schema"
      [] node = "call_get_schema" -> "get_schema"
      [] node = "get_schema"      -> "generate_query"
      [] node = "check_query"     -> "run_query"
      [] node = "run_query"       -> "generate_query"

\* the node that runs after `node` has updated the state
NextNode(node, state) ==
    IF node = "generate_query" THEN should_continue(state) ELSE add_edge(node)

-----------------------------------------------------------------------------
(* One step of agent.stream(..., stream_mode="values") inside query_agent *)

\* a query_agent that keeps the first message of each streamed value
stream_first(state) == state[1]

\* `messages.append(step["messages"][-1])`
stream_value(state) == Last(state)

Iterations == Cardinality({i \in 1..Len(trace) : trace[i] = "check_query"})

\* a node ran and returned `update`; `used` fresh ids went to the model's response
Step(node, update, used) ==
    /\ messages' = add_messages(messages, update, nCalls, nextId + used)
    /\ nextId'   = nextId + used + CountNoId(update)
    /\ pc'       = NextNode(node, messages')
    /\ result'   = Append(result, stream_value(messages'))
    /\ trace'    = Append(trace, node)
    /\ UNCHANGED <<returned, error, cliVars, dbVars>>

\* an exception leaves the graph, query_agent and the while loop of
\* interactive_mode; `except Exception` prints it and the session ends
Abort(err) ==
    /\ pc' = "raised"
    /\ error' = err
    /\ cliPc' = "done"
    /\ printed' = "Error"
    /\ UNCHANGED <<question, built, nCalls, messages, result, returned, nextId,
                   trace, checkerCalls, dbVars>>

Running(node) == cliPc = "query" /\ pc = node

ListTables ==
    /\ Running("list_tables")
    /\ \E update \in list_tables(messages) : Step("list_tables", update, 0)
    /\ UNCHANGED checkerCalls

CallGetSchema ==
    /\ Running("call_get_schema")
    /\ \E update \in call_get_schema(messages, <<nCalls, nextId>>) :
          Step("call_get_schema", update, 1)
    /\ UNCHANGED checkerCalls

GetSchema ==
    /\ Running("get_schema")
    /\ IF Last(messages).type # "ai"
       THEN Abort("ValueError")
       ELSE Step("get_schema", get_schema_node(messages), 0) /\ UNCHANGED checkerCalls

GenerateQueryWith(update) ==
    /\ Running("generate_query")
    /\ update[1].tool_calls # <<>> => Iterations < MaxIter
    /\ Step("generate_query", update, 1)
    /\ UNCHANGED checkerCalls

GenerateQuery ==
    \E update \in generate_query(messages, <<nCalls, nextId>>) : GenerateQueryWith(update)

\* the model answers generate_query in plain text
GenerateAnswer ==
    \E update \in generate_query(messages, <<nCalls, nextId>>) :
        update[1].tool_calls = <<>> /\ GenerateQueryWith(update)

CheckQuery ==
    /\ Running("check_query")
    /\ IF Last(messages).tool_calls = <<>>
       THEN Abort("IndexError")
       ELSE \E update \in check_query(messages, <<nCalls, nextId>>) :
               /\ Step("check_query", update, 1)
               /\ checkerCalls' = checkerCalls \cup
                    {update[1].tool_calls[k].id : k \in 1..Len(update[1].tool_calls)}

RunQuery ==
    /\ Running("run_query")
    /\ IF Last(messages).type # "ai"
       THEN Abort("ValueError")
       ELSE Step("run_query", run_query_node(messages), 0) /\ UNCHANGED checkerCalls

\* a model call or a tool raises (network, credentials, database): any node
NodeRaises ==
    /\ cliPc = "query"
    /\ pc \in Nodes
    /\ Abort("Exception")

-----------------------------------------------------------------------------
(* query_agent and interactive_mode *)

quit == <<"q","u","i","t">>
exit == <<"e","x","i","t">>
help == <<"h","e","l","p">>

\* a loop that compares the line with the commands without lower()
Command_cased(q) ==
    IF q \in {quit, exit} THEN "break"
    ELSE IF q = help THEN "help"
    ELSE IF q = <<>> THEN "empty"
    ELSE "query"

\* what the while loop does with the stripped line q
Command(q) ==
    IF lower(q) \in {quit, exit} THEN "break"
    ELSE IF lower(q) = help THEN "help"
    ELSE IF q = <<>> THEN "empty"
    ELSE "query"

\* a graph compiled with a checkpointer, which keeps the state of a finished run
checkpoint_kept(state) == state

\* `builder.compile()`: no checkpointer, so nothing of a finished run is kept
\* and the input of the next stream is applied to an empty state
checkpoint(state) == <<>>

\* query_agent(agent, question) up to the first streamed value: the input state
QueryAgent(q) ==
    /\ nCalls' = nCalls + 1
    /\ messages' = add_messages(messages, <<HumanMessage(q)>>, nCalls', 0)
    /\ nextId' = 1
    /\ result' = <<stream_value(messages')>>
    /\ pc' = add_edge("START")
    /\ trace' = <<>>
    /\ checkerCalls' = {}
    /\ error' = "none"
    /\ returned' = <<>>

\* initialize_llm, setup_database_connection, create_sql_agent
Setup ==
    /\ cliPc = "start"
    /\ built' = built + 1
    /\ cliPc' = "prompt"
    /\ UNCHANGED <<question, printed, nCalls, graphVars, dbVars>>

SetupRaises ==
    /\ cliPc = "start"
    /\ cliPc' = "done"
    /\ printed' = "Error"
    /\ UNCHANGED <<question, built, nCalls, graphVars, dbVars>>

\* one pass of the while loop up to `continue`, `break` or the query_agent call
ReadLine(line) ==
    /\ cliPc = "prompt"
    /\ question' = strip(line)
    /\ IF Command(question') = "break"
       THEN /\ printed' = "Goodbye!"
            /\ cliPc' = "done"
            /\ UNCHANGED <<built, nCalls, graphVars>>
       ELSE IF Command(question') = "help"
       THEN /\ printed' = "help"
            /\ cliPc' = "prompt"
            /\ UNCHANGED <<built, nCalls, graphVars>>
       ELSE IF Command(question') = "empty"
       THEN /\ printed' = "Please enter a question."
            /\ cliPc' = "prompt"
            /\ UNCHANGED <<built, nCalls, graphVars>>
       ELSE /\ nCalls < MaxQuestions
            /\ printed' = "Querying"
            /\ cliPc' = "query"
            /\ QueryAgent(question')
            /\ UNCHANGED built
    /\ UNCHANGED dbVars

Input == \E line \in Lines : ReadLine(line)

\* the stream is exhausted: query_agent returns its list, the loop prompts again
Return ==
    /\ cliPc = "query"
    /\ pc = END
    /\ returned' = result
    /\ pc' = "idle"
    /\ cliPc' = "prompt"
    /\ messages' = checkpoint(messages)
    /\ result' = <<>>
    /\ trace' = <<>>
    /\ checkerCalls' = {}
    /\ nextId' = 0
    /\ UNCHANGED <<question, printed, built, nCalls, error, dbVars>>

-----------------------------------------------------------------------------
(* create_mock_tables *)

Tables == {"employees", "products", "sales"}

\* rows in the lists `employees`, `products` and `sales` of create_mock_tables
NEmployees == 5
NProducts == 5
NSales == 7

SeedRows(t) ==
    CASE t = "employees" -> NEmployees
      [] t = "products"  -> NProducts
      [] t = "sales"     -> NSales

NoRows == [t \in Tables |-> 0]

\* session.query(Model).count(): the committed rows and the rows this session
\* has flushed
Count(t) == db[t] + pending[t]

\* a check that seeds a table whatever it holds
NeedsSeed_always(t) == TRUE

\* `if session.query(Model).count() == 0`
NeedsSeed(t) == Count(t) = 0

\* the statement executed after the block of table t
AfterBlock(t) ==
    CASE t = "employees" -> "products"
      [] t = "products"  -> "sales"
      [] t = "sales"     -> "commit"

DbIdle ==
    /\ dbPc = "idle"
    /\ db = NoRows
    /\ pending = NoRows
    /\ discarded = NoRows
    /\ dbCalls = 0
    /\ commits = 0

\* create_mock_tables() is called: create_all, then a new session
CreateMockTables ==
    /\ dbPc = "idle"
    /\ dbCalls < MaxDbCalls
    /\ dbCalls' = dbCalls + 1
    /\ dbPc' = "employees"
    /\ UNCHANGED <<db, pending, discarded, commits, cliVars, graphVars>>

\* one `if count() == 0: add_all(...); flush()` block
SeedBlock(t) ==
    /\ dbPc = t
    /\ pending' = IF NeedsSeed(t) THEN [pending EXCEPT ![t] = @ + SeedRows(t)]
                  ELSE pending
    /\ dbPc' = AfterBlock(t)
    /\ UNCHANGED <<db, discarded, dbCalls, commits, cliVars, graphVars>>

SeedEmployees == SeedBlock("employees")
SeedProducts  == SeedBlock("products")
SeedSales     == SeedBlock("sales")

\* session.commit() succeeds, then `finally: session.close()`
Commit ==
    /\ dbPc = "commit"
    /\ db' = [t \in Tables |-> db[t] + pending[t]]
    /\ pending' = NoRows
    /\ commits' = commits + 1
    /\ dbPc' = "idle"
    /\ UNCHANGED <<discarded, dbCalls, cliVars, graphVars>>

\* a query, a flush or the commit raises: `except` rolls the session back
RaiseRollback ==
    /\ dbPc \in Tables \cup {"commit"}
    /\ discarded' = pending
    /\ pending' = NoRows
    /\ dbPc' = "idle"
    /\ UNCHANGED <<db, dbCalls, commits, cliVars, graphVars>>

-----------------------------------------------------------------------------
(* The interactive session *)

\* before interactive_mode runs
SessionIdle ==
    /\ cliPc = "start"
    /\ question = <<>>
    /\ printed = "banner"
    /\ built = 0
    /\ nCalls = 0
    /\ pc = "idle"
    /\ messages = <<>>
    /\ result = <<>>
    /\ returned = <<>>
    /\ nextId = 0
    /\ trace = <<>>
    /\ checkerCalls = {}
    /\ error = "none"

Init ==
    /\ SessionIdle
    /\ DbIdle

Next ==
    \/ Setup
    \/ SetupRaises
    \/ Input
    \/ ListTables
    \/ CallGetSchema
    \/ GetSchema
    \/ GenerateQuery
    \/ CheckQuery
    \/ RunQuery
    \/ NodeRaises
    \/ Return

Spec == Init /\ [][Next]_vars

\* agent.stream runs the next node until the graph ends, and query_agent then
\* returns
GraphStep ==
    \/ ListTables
    \/ CallGetSchema
    \/ GetSchema
    \/ GenerateQuery
    \/ CheckQuery
    \/ RunQuery
    \/ Return

\* the run goes on while it can, and the model, asked again and again by
\* generate_query, eventually answers in plain text
FairSpec == Spec /\ WF_vars(GraphStep) /\ SF_vars(GenerateAnswer)

-----------------------------------------------------------------------------
(* Seeding the database, from any small pre-existing content *)

InitDb ==
    /\ SessionIdle
    /\ dbPc = "idle"
    /\ db \in [Tables -> 0..MaxRows]
    /\ pending = NoRows
    /\ discarded = NoRows
    /\ dbCalls = 0
    /\ commits = 0

NextDb ==
    \/ CreateMockTables
    \/ SeedEmployees
    \/ SeedProducts
    \/ SeedSales
    \/ Commit
    \/ RaiseRollback

SpecDb == InitDb /\ [][NextDb]_vars


-----------------------------------------------------------------------------
(* Properties of the agent graph *)

Ran(node) == trace' = Append(trace, node)

HasToolCalls(m) == m.tool_calls # <<>>

\* C1: after every generate_query step the run goes to check_query exactly when
\* the latest message has a tool call and to END exactly when it has none, and
\* only a generate_query step leads to END
C1_Routing ==
    [][ /\ Ran("generate_query") =>
            /\ (pc' = "check_query") <=> HasToolCalls(Last(messages'))
            /\ (pc' = END) <=> ~HasToolCalls(Last(messages'))
        /\ (pc' = END /\ pc # END) => (pc = "generate_query" /\ Ran("generate_query"))
      ]_vars

\* a run that went through check_query and then ended
C1_Witness == pc = END /\ Iterations >= 1

\* C2: list_tables, call_get_schema and get_schema are the first three steps of
\* every run, in that order, generate_query starts only after them, and none of
\* the three runs again later in the run
C2_SchemaOnce ==
    /\ \A i \in 1..Len(trace) :
          /\ i = 1 => trace[i] = "list_tables"
          /\ i = 2 => trace[i] = "call_get_schema"
          /\ i = 3 => trace[i] = "get_schema"
          /\ i > 3 => trace[i] \notin {"list_tables", "call_get_schema", "get_schema"}
    /\ pc \in {"generate_query", "check_query", "run_query", END} => Len(trace) >= 3

\* a run that ended after two generate/check/run iterations
C2_Witness == pc = END /\ Iterations = 2

\* C3: every run_query step comes right after a check_query step that came
\* right after a generate_query step, appends the results of the query to the
\* history, and is followed by generate_query
C3_CheckedThenRun ==
    [][ /\ Ran("run_query") =>
            /\ Len(trace) >= 2
            /\ trace[Len(trace)] = "check_query"
            /\ trace[Len(trace) - 1] = "generate_query"
            /\ Len(messages') > Len(messages)
            /\ SubSeq(messages', 1, Len(messages)) = messages
            /\ \A i \in (Len(messages) + 1)..Len(messages') :
                  /\ messages'[i].type = "tool"
                  /\ messages'[i].name = "sql_db_query"
                  /\ messages'[i].content[1] = "result of"
            /\ pc' = "generate_query"
        /\ (trace # <<>> /\ Last(trace) = "run_query" /\ trace' # trace /\ trace' # <<>>)
              => Ran("generate_query")
      ]_vars

\* generate_query has run right after a run_query
C3_Witness ==
    /\ Len(trace) >= 7
    /\ trace[Len(trace)] = "generate_query"
    /\ trace[Len(trace) - 1] = "run_query"

IsSchemaResult(m) ==
    m.type = "tool" /\ m.name = "sql_db_schema" /\ m.content[1] = "result of"

\* C4: whenever get_schema is about to run, the latest message is the model's
\* and holds at least one call, all to the schema tool; and once generate_query
\* can run, a result of the schema tool is in the history
C4_SchemaForced ==
    /\ (cliPc = "query" /\ pc = "get_schema") =>
          /\ Last(messages).type = "ai"
          /\ HasToolCalls(Last(messages))
          /\ \A k \in 1..Len(Last(messages).tool_calls) :
                Last(messages).tool_calls[k].name = "sql_db_schema"
    /\ (cliPc = "query" /\ pc \in {"generate_query", "check_query", "run_query", END}) =>
          \E i \in 1..Len(messages) : IsSchemaResult(messages[i])

\* the first generate_query is about to run with the schema in the history
C4_Witness ==
    /\ pc = "generate_query"
    /\ Len(trace) = 3
    /\ IsSchemaResult(Last(messages))

\* C5: a check_query step leaves the history as long as it was, puts in the
\* place and under the id of the generator's message a message with at least one
\* call, all to the query tool, and changes nothing else; and every result
\* run_query appends answers a call emitted by check_query
C5_CheckerReplaces ==
    [][ /\ Ran("check_query") =>
            /\ Len(messages') = Len(messages)
            /\ Last(messages').id = Last(messages).id
            /\ Last(messages').type = "ai"
            /\ HasToolCalls(Last(messages'))
            /\ \A k \in 1..Len(Last(messages').tool_calls) :
                  /\ Last(messages').tool_calls[k].name = "sql_db_query"
                  /\ Last(messages').tool_calls[k].id \in checkerCalls'
                  /\ \A j \in 1..Len(Last(messages).tool_calls) :
                        Last(messages).tool_calls[j].id # Last(messages').tool_calls[k].id
            /\ \A i \in 1..(Len(messages) - 1) : messages'[i] = messages[i]
        /\ Ran("run_query") =>
            \A i \in (Len(messages) + 1)..Len(messages') :
                /\ messages'[i].tool_call_id \in checkerCalls
                /\ \E k \in 1..Len(Last(messages).tool_calls) :
                      /\ Last(messages).tool_calls[k].id = messages'[i].tool_call_id
                      /\ messages'[i].content =
                            <<"result of", "sql_db_query">> \o Last(messages).tool_calls[k].args
      ]_vars

\* run_query has executed a query the checker revised
C5_Witness ==
    /\ trace # <<>> /\ Last(trace) = "run_query"
    /\ Last(messages).tool_call_id \in checkerCalls
    /\ Last(messages).content = <<"result of", "sql_db_query">> \o Rewrite(<<"SELECT 1">>)

-----------------------------------------------------------------------------
(* Termination, shape of the graph, the interactive loop *)

AnsweredPlain ==
    /\ cliPc = "prompt"
    /\ returned # <<>>
    /\ Last(returned).type = "ai"
    /\ ~HasToolCalls(Last(returned))
    /\ Last(returned).content = <<"answer">>

\* C6: under FairSpec every query_agent call ends: it returns a list whose last
\* element is the model's plain answer, unless a node raised; and the list it
\* returns holds the latest message of every streamed value, the last being
\* the message generate_query ended the run with
C6_Terminates ==
    /\ (cliPc = "query") ~> (AnsweredPlain \/ (cliPc = "done" /\ error = "Exception"))
    /\ [][ (cliPc = "query" /\ cliPc' = "prompt") =>
              /\ pc = END
              /\ Last(trace) = "generate_query"
              /\ returned' = result
              /\ Len(result) = Len(trace) + 1
              /\ Last(result) = Last(messages)
              /\ ~HasToolCalls(Last(messages))
         ]_vars

\* query_agent has returned after two generate/check/run iterations
C6_Witness == AnsweredPlain /\ Len(returned) = 11

Visited == {trace[i] : i \in 1..Len(trace)}

\* the nodes of the run so far, with the node the run goes to next
Path == IF pc \in Nodes \cup {END} THEN Append(trace, pc) ELSE trace

Successors(n) == {Path[i + 1] : i \in {j \in 1..(Len(Path) - 1) : Path[j] = n}}

SingleSuccessors ==
    /\ \A n \in Visited \ {"generate_query"} : Cardinality(Successors(n)) <= 1
    /\ Successors("generate_query") \subseteq {"check_query", END}

\* C7 as stated: a run visits at most five nodes, and only generate_query has
\* more than one successor
C7_FiveNodes == Cardinality(Visited) <= 5 /\ SingleSuccessors

\* C7, amended: the nodes a run visits are among the six nodes list_tables,
\* call_get_schema, get_schema, generate_query, check_query and run_query;
\* every node but generate_query has the one successor its fixed edge names,
\* and generate_query goes to check_query or to END
C7_SixNodes ==
    /\ Visited \subseteq Nodes
    /\ Cardinality(Visited) <= 6
    /\ SingleSuccessors
    /\ Successors("list_tables") \subseteq {"call_get_schema"}
    /\ Successors("call_get_schema") \subseteq {"get_schema"}
    /\ Successors("get_schema") \subseteq {"generate_query"}
    /\ Successors("check_query") \subseteq {"run_query"}
    /\ Successors("run_query") \subseteq {"generate_query"}

\* a run that visited six nodes and left generate_query both ways
C7_Witness ==
    /\ Cardinality(Visited) = 6
    /\ Successors("generate_query") = {"check_query", END}

Stripped(q) == q = <<>> \/ (Head(q) \notin Whitespace /\ Last(q) \notin Whitespace)

IsQuit(q) == lower(q) \in {quit, exit}
IsHelp(q) == lower(q) = help

\* what the loop does with one line, up to the query_agent call
LineHandled ==
    cliPc = "prompt" =>
        /\ \E line \in Lines : question' = strip(line)
        /\ Stripped(question')
        /\ built' = built
        /\ IsQuit(question') => (cliPc' = "done" /\ nCalls' = nCalls /\ pc' = pc)
        /\ (~IsQuit(question') /\ (IsHelp(question') \/ question' = <<>>)) =>
              (cliPc' = "prompt" /\ nCalls' = nCalls /\ pc' = pc)
        /\ (~IsQuit(question') /\ ~IsHelp(question') /\ question' # <<>>) =>
              /\ cliPc' = "query"
              /\ nCalls' = nCalls + 1
              /\ pc' = "list_tables"
              /\ Len(messages') = 1
              /\ messages'[1].type = "human"
              /\ messages'[1].content = question'

BuiltOnce ==
    /\ built' \in {0, 1}
    /\ cliPc \in {"prompt", "query"} => (built = 1 /\ built' = 1)
    /\ cliPc = "query" => nCalls' = nCalls

\* C8 as stated: quit and exit end the loop without a query, help and the empty
\* line prompt again without a query, any other line starts one query_agent
\* call with the stripped line, after which the loop prompts again; the agent
\* is built once
C8_PromptsAgain ==
    [][ /\ LineHandled
        /\ BuiltOnce
        /\ (cliPc = "query" /\ cliPc' # "query") => cliPc' = "prompt"
      ]_vars

\* C8, amended: as stated, except that the loop prompts again only when the
\* query_agent call returns; when the call raises, the loop ends
C8_PromptsAgainIfReturned ==
    [][ /\ LineHandled
        /\ BuiltOnce
        /\ (cliPc = "query" /\ cliPc' # "query") =>
              \/ cliPc' = "prompt" /\ pc = END /\ error' = "none"
              \/ cliPc' = "done" /\ error' # "none"
      ]_vars

\* two questions were answered by the one agent and the loop prompts again
C8_Witness ==
    /\ cliPc = "prompt"
    /\ nCalls = 2
    /\ built = 1
    /\ AnsweredPlain

-----------------------------------------------------------------------------
(* create_mock_tables *)

\* C9: a table gets rows only in its own block and only when it has none, all
\* the seed rows at once; the committed rows change only at the commit, which
\* persists every pending row; a call that raises leaves the committed rows as
\* they were and no row pending; and once a call has committed, no later call
\* adds or commits a row
C9_SeedOnce ==
    [][ /\ \A t \in Tables :
              pending'[t] > pending[t] =>
                  /\ dbPc = t
                  /\ db[t] + pending[t] = 0
                  /\ pending'[t] = SeedRows(t)
        /\ db' # db =>
              /\ dbPc = "commit" /\ commits' = commits + 1
              /\ \A t \in Tables : db'[t] = db[t] + pending[t]
        /\ (dbPc # "idle" /\ dbPc' = "idle") => pending' = NoRows
        /\ (dbPc # "idle" /\ dbPc' = "idle" /\ commits' = commits) => db' = db
        /\ commits >= 1 => (db' = db /\ pending' = NoRows)
      ]_vars

\* a call was rolled back with rows pending, and two later calls committed
C9_Witness ==
    /\ dbPc = "idle"
    /\ discarded # NoRows
    /\ commits = 2
    /\ \A t \in Tables : db[t] > 0

-----------------------------------------------------------------------------

\* C10: check_query is entered only with a latest message that is the model's
\* and has a first tool call, whose arguments hold a query; reading
\* tool_calls[0] never fails
C10_FirstToolCall ==
    /\ (cliPc = "query" /\ pc = "check_query") =>
          /\ Last(messages).type = "ai"
          /\ Len(Last(messages).tool_calls) >= 1
          /\ Last(messages).tool_calls[1].name = "sql_db_query"
          /\ Last(messages).tool_calls[1].args \in Queries
    /\ error # "IndexError"

\* check_query is entered for the second time in a run
C10_Witness == cliPc = "query" /\ pc = "check_query" /\ Iterations = 1

-----------------------------------------------------------------------------

\* C11: while a query_agent call runs, the history starts with that call's
\* question as its only user message, holds nothing else when the graph
\* starts, and every message in it was produced in this call, none in an
\* earlier one
C11_Isolated ==
    cliPc = "query" =>
        /\ messages # <<>>
        /\ messages[1].type = "human"
        /\ messages[1].content = question
        /\ pc = "list_tables" => Len(messages) = 1
        /\ \A i \in 1..Len(messages) :
              /\ messages[i].id # NoId
              /\ messages[i].id[1] = nCalls
              /\ i > 1 => messages[i].type # "human"

\* the second question of a session was answered after a generate/check/run
\* iteration
C11_Witness ==
    /\ cliPc = "query"
    /\ nCalls = 2
    /\ pc = END
    /\ Iterations >= 1

====
